---------------------------- MODULE Spec2Model ----------------------------
(***************************************************************************)
(* A state-machine model of the hardware modules of qudi-iqo-modules.      *)
(*                                                                         *)
(* MotorStagePI (src/qudi/hardware/motor/motor_stage_pi.py) is modelled as *)
(* one synchronous caller that executes one public call at a time.  Every  *)
(* exchange with the serial transport takes its outcome from the           *)
(* environment: the write of a command succeeds or raises, a query (write, *)
(* reads, parse of the reply) succeeds or raises.                          *)
(*                                                                         *)
(* Lengths in metres are integers counted in sub-units: SubPerRaw          *)
(* sub-units make one raw device unit (1e-7 m), so that values that are    *)
(* not a multiple of 1e-7 m exist and int(move*1e7) truncates.             *)
(*                                                                         *)
(* The stage itself is the environment: it takes the target of every MA    *)
(* command it receives as its position and reports that position on TT;    *)
(* what it reports on TS is arbitrary.  The axis labels are the default    *)
(* one-character labels, for which get_pos(axis) iterates over [axis].     *)
(* A public call runs from its entry to pc = "done"; the observer          *)
(* variables describe that one call.                                       *)
(***************************************************************************)
EXTENDS Integers, Sequences, FiniteSets, TLC

\* ----------------------------------------------------------------- bounds
\* sub-units per raw device unit (resolution of the modelled metre values)
SubPerRaw == 4
\* the longest batch (number of axes) a caller passes to one call
MaxBatch == 2
\* sleep ticks after which abort's unbounded wait is no longer followed
MaxPolls == 2
\* the configured timeout of wait_on_condition in ticks of its sleep dt_s
WaitTimeout == 1
\* the longest fragment a single read() returns
MaxFrag == 2
\* reads of one _read_answer_xyz that take no measurable time
MaxReads == 2

\* ---------------------------------------------------- program constants
\* pi_*_max / pi_*_min, here in raw units (the configuration is symmetric)
MaxRaw == 2
PosMax == MaxRaw * SubPerRaw
PosMin == 0 - PosMax
\* pi_*_axis_step: one raw unit (1e-7 m)
PosStep == SubPerRaw

\* vel_*_min / vel_*_max, in raw units
VelMinRaw == 1
VelMin == VelMinRaw * SubPerRaw
VelMax == MaxRaw * SubPerRaw

MoveAttemptsOneMore == 3 + 1
\* for attempt in range(3)
MoveAttempts == 3

PosRetriesOneLess == 5 - 1
\* for attempt in range(5)
PosRetries == 5

\* the labels of the constraints, in the insertion order of the OrderedDict
Axes == <<"x", "y", "z">>
AxisSet == {Axes[i] : i \in 1..Len(Axes)}

\* constraints[axis]
Constraints(axis) ==
    [pos_min |-> PosMin, pos_max |-> PosMax, pos_step |-> PosStep]

Abs(v) == IF v < 0 THEN 0 - v ELSE v

\* the clock after one more sleep; past the configured timeout all readings
\* compare alike, and the clock is followed between two of them only
Tick(t) == IF t <= WaitTimeout + 1 THEN t + 1 ELSE WaitTimeout + 1

\* int(move * 1e7): truncation towards zero
ToRaw(move) ==
    IF move >= 0 THEN move \div SubPerRaw ELSE 0 - ((0 - move) \div SubPerRaw)

\* pos * 1e-7
FromRaw(raw) == raw * SubPerRaw

\* how the binary floating point product value * 1e7 lands when the value
\* is a decimal multiple of 1e-7: on the integer, or one ulp towards zero
\* (5.7e-6 * 1e7 = 56.99999999999999)
FloatLandings == {"exact", "below"}

\* int(value * 1e7) with the floating point product followed
ToRawFloat(value, fp) ==
    IF fp = "below" /\ value # 0 /\ value % SubPerRaw = 0
    THEN (IF value > 0 THEN ToRaw(value) - 1 ELSE ToRaw(value) + 1)
    ELSE ToRaw(value)

InBoundsNoCheck(axis, move) == TRUE
\* constraints[axis]['pos_min'] <= move <= constraints[axis]['pos_max']
InBounds(axis, move) ==
    /\ Constraints(axis).pos_min <= move
    /\ move <= Constraints(axis).pos_max

StepTooSmallNoCheck(axis, step) == FALSE
\* not(abs(constraints[axis]['pos_step']) < abs(step))
StepTooSmall(axis, step) ==
    ~(Abs(Constraints(axis).pos_step) < Abs(step))

DirectionValidAny(direction) == TRUE
\* direction in [0,1,2,3]
DirectionValid(direction) == direction \in {0, 1, 2, 3}

TimedOutNever(t) == FALSE
\* timeout_s >= 0 and t > timeout_s, with the configured timeout
TimedOut(t) == t > WaitTimeout

\* ------------------------------------------------- the environment's inputs
\* outcomes of one _write_xyz: the write succeeds, or the write raises
WriteOutcomes == {"ok", "wfail"}

\* status values a device reports on TS
StatusVals == {0, 1, 2}

\* outcome of one TS query: the write, a read or int() raises, or the reply
\* parses to a status value
Replies ==
    {[kind |-> "fail", val |-> 0]}
        \cup {[kind |-> "ok", val |-> s] : s \in StatusVals}
Oracles == [AxisSet -> Replies]

\* outcome of one TT query
AskOutcomes == {"ok", "fail"}

\* targets of move_abs, offsets of move_rel (sub-units)
Targets == {PosMin - 1, SubPerRaw - 1, PosMax, PosMax + 1}
Offsets == {SubPerRaw - 1, PosStep, 2 * SubPerRaw, PosMax + PosMax + 1}

\* velocities of set_velocity (sub-units): below vel_min, inside the range
\* and no multiple of the raw unit, above vel_max
Velocities == {0, VelMin + 1, VelMax + SubPerRaw}

\* a param_dict: its items in insertion order, the keys distinct
Batches(vals) ==
    UNION {{b \in [1..n -> [axis : AxisSet, val : vals]] :
               \A i, j \in 1..n : i # j => b[i].axis # b[j].axis} :
           n \in 1..(IF MaxBatch < Len(Axes) THEN MaxBatch ELSE Len(Axes))}

AxisLists ==
    UNION {{l \in [1..n -> AxisSet] : \A i, j \in 1..n : i # j => l[i] # l[j]} :
           n \in 1..(IF MaxBatch < Len(Axes) THEN MaxBatch ELSE Len(Axes))}

\* the axis lists and directions calibrate is called with
CalLists == {<<Axes[1]>>, <<Axes[3], Axes[2]>>}
Directions == {0 - 1, 3, 4}

\* the positions the stage may stand at when the module is activated (raw)
StartRaws == {0 - MaxRaw, 0}
StartPositions == {[a \in AxisSet |-> r] : r \in StartRaws}

\* ------------------------------------------------- _in_movement_xyz
Unbound == 0 - 1

RECURSIVE InMovementFrom(_, _, _, _)
\* the loop of _in_movement_xyz from the i-th axis on.  tmp0 is the local of
\* that name with the axis whose reply it was parsed from: [val, of]; its val
\* is Unbound until the first query that succeeds assigns it.  Each entry of
\* param_dict keeps, beside tmp0 % 2, the axis tmp0 came from.
InMovementFrom(i, tmp0, dict, o) ==
    IF i > Len(Axes) THEN [raised |-> FALSE, dict |-> dict, asked |-> i - 1]
    ELSE LET a == Axes[i]
             t == IF o[a].kind = "ok" THEN [val |-> o[a].val, of |-> a]
                  ELSE tmp0
         IN  IF t.val = Unbound
             THEN [raised |-> TRUE, dict |-> dict, asked |-> i]
             ELSE InMovementFrom(i + 1, t,
                      [b \in DOMAIN dict \cup {a} |->
                          IF b = a THEN [bit |-> t.val % 2, of |-> t.of]
                          ELSE dict[b]], o)

InMovementXyz(o) ==
    InMovementFrom(1, [val |-> Unbound, of |-> "none"], <<>>, o)

\* _motor_stopped: "true", "false", or "raised" (the UnboundLocalError of
\* _in_movement_xyz leaves it)
MotorStopped(o) ==
    LET r == InMovementXyz(o)
    IN  IF r.raised THEN "raised"
        ELSE IF \A a \in DOMAIN r.dict : r.dict[a].bit = 0 THEN "true"
        ELSE "false"

\* the TS queries one _in_movement_xyz issues
PollAsked(o) == {<<Axes[i], "TS">> : i \in 1..InMovementXyz(o).asked}
PollFaulted(o) ==
    \E j \in 1..InMovementXyz(o).asked : o[Axes[j]].kind # "ok"

VARIABLES
    pc,        \* where the caller stands
    op,        \* the public call being executed
    batch,     \* param_dict of move_abs / move_rel: its items in order
    dir,       \* direction of calibrate
    listNone,  \* calibrate was given param_list = None
    attempt,   \* the loop variable of the 3-attempt loop
    idx,       \* position in the batch / in the axis loop
    elapsed,   \* sleep ticks spent in the current wait (0 outside a wait)
    stopped,   \* what the last _motor_stopped() gave
    devPos,    \* the stage: raw position of each axis
    ret,       \* what the public call returned or raised
    gpList,    \* get_pos: the axes asked for
    gpIdx,     \* get_pos: position in gpList
    gpAtt,     \* get_pos: the loop variable of the 5-attempt loop
    gpRes,     \* get_pos: param_dict being built
    gpRet,     \* get_pos: who called
    \* what an observer of the current public call has seen
    written,   \* commands of _write_xyz whose write() returned: <<axis, opcode, arg>>
    asked,     \* queries handed to _ask_xyz: <<axis, opcode>>
    touched,   \* write() or read() of the transport was called
    faulted,   \* some transport exchange raised
    logs,      \* the kinds of log records emitted
    nConn,     \* 'Motor connection problem!' warnings
    bodyRuns,  \* batch bodies started
    visited,   \* axes whose _do_move_rel ran in the current attempt
    ttAsked,   \* TT queries issued for the current axis of get_pos
    ttFailed,  \* TT queries for the current axis of get_pos that raised
    replies,   \* the TS replies of the status check that was recorded
    nAsk,      \* queries issued by get_status / get_velocity
    wire,      \* a primitive on its own: its calls of the transport, in order
    answer,    \* a primitive on its own: the string it returned
    devVel,    \* the stage: raw velocity of each axis (round trips only)
    entryPos,  \* the raw positions of the stage when the public call began
    labels,    \* the configured axis labels (pi_*_axis_label), in order
    \* the dummy wavemeter and its measurement thread
    isRunning,  \* WavemeterDummy._is_running
    wavelength, \* WavemeterDummy.__current_wavelength, in units of range_step
    timing,     \* WavemeterDummy._measurement_timing
    sigQueue,   \* sig_handle_timer: emitted, not yet handled by the thread
    timer,      \* HardwarePull.timer: "none", "active" or "stopped"
    hwPc,       \* the measurement thread: position inside _measure_thread
    hwTmp,      \* the measurement thread: the wavelength it has read
    wmPc,       \* the calling thread: "idle" or "returned"
    wmCall,     \* the calling thread: its last call
    wmRet,      \* the calling thread: what that call returned
    lastOk,     \* the last start/stop call that returned 0
    \* the LaserQuantum laser
    psu,        \* LaserQuantumLaser.psu
    lqPc,       \* the position inside set_laser_state
    lqStatus,   \* set_laser_state: its argument
    lqState,    \* set_laser_state: what get_laser_state returned
    lqSent,     \* the strings handed to inst.query by the call, in order
    \* the ODMR interfuse, its sampling device and its microwave source
    odPc,        \* the position inside acquire_frame ("new": not activated)
    odInterface, \* OdmrMwExtTriggerInterfuse._interface
    odHasLock,   \* the base class gives the interfuse a _thread_lock
    smRecursive, \* the sampling device's _thread_lock is recursive
    odOwnFrame,  \* the instance attribute _frame_size of the interfuse
    smFrame,     \* the sampling device's _frame_size
    held,        \* how often each _thread_lock is held
    odFirst,     \* the object whose lock 'self._thread_lock' was
    odArg,       \* acquire_frame: frame_size
    odBuf,       \* acquire_frame: buffered_frame_size
    odEntry,     \* the sampling device's _frame_size when the call began
    odTrace      \* the device calls of acquire_frame, with the locks held

ctl == <<pc, op, batch, dir, listNone, attempt, idx, elapsed, stopped, ret>>
gp == <<gpList, gpIdx, gpAtt, gpRes, gpRet, ttAsked, ttFailed>>
obs == <<written, asked, touched, faulted, logs, nConn, bodyRuns, visited>>
prim == <<nAsk, wire, answer>>
wm == <<isRunning, wavelength, timing, sigQueue, timer, hwPc, hwTmp,
        wmPc, wmCall, wmRet, lastOk>>
lq == <<psu, lqPc, lqStatus, lqState, lqSent>>
od == <<odPc, odInterface, odHasLock, smRecursive, odOwnFrame, smFrame, held,
        odFirst, odArg, odBuf, odEntry, odTrace>>
others == <<wm, lq, od>>
motor == <<ctl, gp, obs, devPos, replies, prim, devVel, entryPos, labels>>
vars == <<ctl, gp, obs, devPos, replies, prim, devVel, entryPos, labels, others>>

\* WavemeterDummy.__init__: not running, the wavelength float() = 0.0, the
\* timing of the configuration; no signal emitted, no timer created yet
InitWavemeter ==
    /\ isRunning = FALSE /\ wavelength = 0 /\ timing = 1
    /\ sigQueue = <<>> /\ timer = "none" /\ hwPc = "idle" /\ hwTmp = 0
    /\ wmPc = "idle" /\ wmCall = "none" /\ wmRet = 0 /\ lastOk = "none"

\* LaserQuantumLaser after on_activate with the default psu 'SMD6000'
InitLaser ==
    /\ psu = "SMD6000" /\ lqPc = "idle" /\ lqStatus = "none"
    /\ lqState = "none" /\ lqSent = <<>>

\* OdmrMwExtTriggerInterfuse before on_activate, its devices at rest; None
\* is written 0
Locks == {"own", "microwave", "sampler"}
InitOdmr ==
    /\ odPc = "new" /\ odInterface = "none"
    /\ odHasLock = FALSE /\ smRecursive = FALSE
    /\ odOwnFrame = 0 /\ smFrame = 1
    /\ held = [l \in Locks |-> 0] /\ odFirst = "none"
    /\ odArg = 0 /\ odBuf = 0 /\ odEntry = 0 /\ odTrace = <<>>

\* the state after construction, whatever the labels are configured to
InitCommon ==
    /\ pc = "idle" /\ op = "none"
    /\ batch = <<>> /\ dir = 0 /\ listNone = FALSE
    /\ attempt = 0 /\ idx = 0 /\ elapsed = 0 /\ stopped = "none"
    /\ devPos \in StartPositions
    /\ ret = "none"
    /\ gpList = <<>> /\ gpIdx = 0 /\ gpAtt = 0 /\ gpRes = <<>> /\ gpRet = "none"
    /\ written = {} /\ asked = {} /\ touched = FALSE /\ faulted = FALSE /\ logs = {}
    /\ nConn = 0 /\ bodyRuns = 0 /\ visited = {}
    /\ ttAsked = 0 /\ ttFailed = 0
    /\ replies = <<>>
    /\ nAsk = 0 /\ wire = <<>> /\ answer = <<>>
    /\ devVel = [a \in AxisSet |-> VelMinRaw]
    /\ entryPos = devPos
    /\ InitWavemeter
    /\ InitLaser
    /\ InitOdmr

\* the default configuration of the labels: 'x', 'y', 'z'
Init == InitCommon /\ labels = Axes

\* a public call starts: the observer starts afresh
Enter(name) ==
    /\ pc = "idle"
    /\ op' = name
    /\ ret' = "none"
    /\ attempt' = 0 /\ elapsed' = 0 /\ stopped' = "none"
    /\ written' = {} /\ asked' = {} /\ touched' = FALSE /\ faulted' = FALSE /\ logs' = {}
    /\ nConn' = 0 /\ visited' = {}
    /\ entryPos' = devPos
    /\ UNCHANGED <<devPos, replies, prim, devVel, labels, others>>

\* ---------------------------------------------------------- primitives
\* _write_xyz: the write and the draining read; every exception is caught,
\* logged and turned into the return value -1, which no caller reads
WriteXyz(axis, opcode, arg, out) ==
    /\ touched' = TRUE
    /\ IF out = "ok"
       THEN /\ written' = written \cup {<<axis, opcode, arg>>}
            /\ faulted' = faulted
            /\ devPos' = IF opcode = "MA" THEN [devPos EXCEPT ![axis] = arg]
                         ELSE devPos
       ELSE /\ written' = written
            /\ faulted' = TRUE
            /\ devPos' = devPos

WriteLogs(out) == IF out = "ok" THEN {} ELSE {"cmd_not_accepted"}

DoMoveAbsNoCheck(axis, move, out) == WriteXyz(axis, "MA", ToRaw(move), out)
\* _do_move_abs: the bounds check, then MA<int(move*1e7)>
DoMoveAbs(axis, move, out) ==
    IF ~InBounds(axis, move)
    THEN UNCHANGED <<written, touched, faulted, devPos>>
    ELSE WriteXyz(axis, "MA", ToRaw(move), out)

DoMoveAbsLogs(axis, move, out) ==
    IF ~InBounds(axis, move) THEN {"border"} ELSE WriteLogs(out)

\* one _motor_stopped() as the transport sees it
PollWire(o) ==
    /\ touched' = TRUE
    /\ asked' = asked \cup PollAsked(o)
    /\ faulted' = (faulted \/ PollFaulted(o))
    /\ stopped' = MotorStopped(o)
    /\ UNCHANGED <<written, devPos>>

PollLogs(o) == IF PollFaulted(o) THEN {"status_failed"} ELSE {}

GpIdle ==
    /\ gpList' = <<>> /\ gpIdx' = 0 /\ gpAtt' = 0 /\ gpRes' = <<>>
    /\ gpRet' = "none" /\ ttAsked' = 0 /\ ttFailed' = 0

\* get_pos is entered for the axes l on behalf of who
GpCall(l, who) ==
    /\ gpList' = l /\ gpIdx' = 1 /\ gpAtt' = 0 /\ gpRes' = <<>>
    /\ gpRet' = who /\ ttAsked' = 0 /\ ttFailed' = 0

MoveReturnsError == pc' = "done" /\ ret' = "-1" /\ UNCHANGED gp
\* move_abs / move_rel return param_dict; calibrate goes on to get_pos()
MoveReturns ==
    IF op = "calibrate"
    THEN /\ pc' = "gp" /\ ret' = ret /\ GpCall(Axes, "calibrate")
    ELSE /\ pc' = "done" /\ ret' = "param_dict" /\ UNCHANGED gp

\* the except clause of the 3-attempt loop and the loop's next round, or
\* its else clause when the attempts are used up
FailAttempt(startPc, vis) ==
    /\ nConn' = nConn + 1
    /\ attempt' = attempt + 1
    /\ IF attempt + 1 < MoveAttempts
       THEN /\ pc' = startPc /\ idx' = 1 /\ elapsed' = 0
            /\ bodyRuns' = bodyRuns + 1 /\ visited' = {}
            /\ ret' = ret /\ UNCHANGED gp
       ELSE /\ MoveReturns
            /\ idx' = idx /\ elapsed' = 0
            /\ bodyRuns' = bodyRuns /\ visited' = vis

FailLogs == IF attempt + 1 < MoveAttempts THEN {"conn_problem"}
            ELSE {"conn_problem", "cannot_move"}

\* ------------------------------------------------------------ move_abs
\* move_abs is entered with a param_dict whose values are drawn from vals
CallMoveAbsWith(vals) ==
    \E b \in Batches(vals) :
        /\ Enter("move_abs")
        /\ batch' = b /\ idx' = 1 /\ bodyRuns' = 1 /\ pc' = "ma_axis"
        /\ UNCHANGED <<dir, listNone>>
        /\ GpIdle

CallMoveAbs == CallMoveAbsWith(Targets)

\* one round of "for axis_label in param_dict" of move_abs
MoveAbsAxis ==
    /\ pc = "ma_axis"
    /\ \E out \in WriteOutcomes :
        LET a == batch[idx].axis
            move == batch[idx].val
        IN  /\ DoMoveAbs(a, move, out)
            /\ logs' = logs \cup DoMoveAbsLogs(a, move, out)
    /\ IF idx < Len(batch)
       THEN idx' = idx + 1 /\ pc' = pc
       ELSE idx' = idx /\ pc' = "ma_wait"
    /\ elapsed' = 0
    /\ UNCHANGED <<asked, op, batch, dir, listNone, attempt, stopped, ret,
                   gp, nConn, bodyRuns, visited, replies, prim, devVel, entryPos, labels, others>>

WaitTimesOutRaising(o) ==
    /\ FailAttempt("ma_axis", visited)
    /\ logs' = logs \cup PollLogs(o) \cup {"timed_out"} \cup FailLogs
\* wait_on_condition leaves its loop on the timeout and logs the warning;
\* the try block of move_abs is through, its else clause breaks
WaitTimesOut(o) ==
    /\ MoveReturns
    /\ elapsed' = 0
    /\ logs' = logs \cup PollLogs(o) \cup {"timed_out"}
    /\ UNCHANGED <<attempt, idx, nConn, bodyRuns, visited>>

\* one round of wait_on_condition("self._motor_stopped()") in move_abs; the
\* round looks at the replies through _motor_stopped alone, which sees the
\* lowest bit of a status: the values 0 and 1 stand for all
MoveAbsWait ==
    /\ pc = "ma_wait"
    /\ \E o \in {r \in Oracles : \A a \in AxisSet : r[a].val \in {0, 1}} :
        /\ PollWire(o)
        /\ IF MotorStopped(o) = "raised"
           THEN /\ FailAttempt("ma_axis", visited)
                /\ logs' = logs \cup PollLogs(o) \cup FailLogs
           ELSE IF MotorStopped(o) = "true"
           THEN /\ MoveReturns
                /\ elapsed' = 0
                /\ logs' = logs \cup PollLogs(o)
                /\ UNCHANGED <<attempt, idx, nConn, bodyRuns, visited>>
           ELSE IF TimedOut(elapsed)
           THEN WaitTimesOut(o)
           ELSE /\ elapsed' = Tick(elapsed)
                /\ logs' = logs \cup PollLogs(o)
                /\ UNCHANGED <<pc, ret, gp>>
                /\ UNCHANGED <<attempt, idx, nConn, bodyRuns, visited>>
    /\ UNCHANGED <<op, batch, dir, listNone, replies, prim, devVel, entryPos, labels, others>>

\* ------------------------------------------------------------ move_rel
CallMoveRel ==
    \E b \in Batches(Offsets) :
        /\ Enter("move_rel")
        /\ batch' = b /\ idx' = 1 /\ bodyRuns' = 1 /\ pc' = "mr_axis"
        /\ UNCHANGED <<dir, listNone>>
        /\ GpIdle

\* _do_move_rel up to its call of get_pos: the too-small branch logs and
\* falls through to "return axis, move" with move unbound, which raises
MoveRelAxis ==
    /\ pc = "mr_axis"
    /\ LET a == batch[idx].axis
           step == batch[idx].val
       IN  IF StepTooSmall(a, step)
           THEN /\ FailAttempt("mr_axis", visited \cup {a})
                /\ logs' = logs \cup {"step_small"} \cup FailLogs
           ELSE /\ pc' = "gp" /\ GpCall(<<a>>, "move_rel")
                /\ visited' = visited \cup {a}
                /\ UNCHANGED <<attempt, idx, elapsed, ret, logs, nConn, bodyRuns>>
    /\ UNCHANGED <<op, batch, dir, listNone, stopped, devPos,
                   written, asked, touched, faulted, replies, prim, devVel, entryPos, labels, others>>

\* _do_move_rel after get_pos(axis) returned: [axis] of the result, then
\* _do_move_abs(axis, current_pos + step)
MoveRelMove ==
    /\ pc = "mr_move"
    /\ LET a == batch[idx].axis
           step == batch[idx].val
       IN  IF a \notin DOMAIN gpRes
           THEN /\ FailAttempt("mr_axis", visited)
                /\ logs' = logs \cup FailLogs
                /\ UNCHANGED <<written, touched, faulted, devPos>>
           ELSE /\ \E out \in WriteOutcomes :
                    /\ DoMoveAbs(a, gpRes[a] + step, out)
                    /\ logs' = logs \cup DoMoveAbsLogs(a, gpRes[a] + step, out)
                /\ IF idx < Len(batch)
                   THEN /\ idx' = idx + 1 /\ pc' = "mr_axis" /\ ret' = ret
                        /\ UNCHANGED gp
                   ELSE /\ idx' = idx /\ MoveReturns
                /\ UNCHANGED <<attempt, elapsed, nConn, bodyRuns, visited>>
    /\ UNCHANGED <<op, batch, dir, listNone, stopped, asked, replies, prim, devVel, entryPos, labels, others>>

\* ------------------------------------------------------------- get_pos
CallGetPos ==
    \E l \in AxisLists \cup {Axes} :
        /\ Enter("get_pos")
        /\ pc' = "gp" /\ GpCall(l, "public")
        /\ batch' = <<>> /\ idx' = 0 /\ bodyRuns' = 0
        /\ UNCHANGED <<dir, listNone>>

\* one round of "for attempt in range(5)" of get_pos: the TT query, int()
\* of what follows the first colon, times 1e-7
GetPosAttempt ==
    /\ pc = "gp"
    /\ \E out \in AskOutcomes :
        LET a == gpList[gpIdx]
            axisDone == out = "ok" \/ gpAtt + 1 >= PosRetries
        IN  /\ touched' = TRUE
            /\ asked' = asked \cup {<<a, "TT">>}
            /\ faulted' = (faulted \/ out # "ok")
            /\ gpRes' = IF out = "ok"
                        THEN [b \in DOMAIN gpRes \cup {a} |->
                                 IF b = a THEN FromRaw(devPos[a]) ELSE gpRes[b]]
                        ELSE gpRes
            /\ IF ~axisDone
               THEN /\ gpAtt' = gpAtt + 1 /\ gpIdx' = gpIdx /\ pc' = pc /\ ret' = ret
                    /\ ttAsked' = ttAsked + 1 /\ ttFailed' = ttFailed + 1
               ELSE IF gpIdx < Len(gpList)
               THEN /\ gpAtt' = 0 /\ gpIdx' = gpIdx + 1 /\ pc' = pc /\ ret' = ret
                    /\ ttAsked' = 0 /\ ttFailed' = 0
               ELSE /\ gpAtt' = gpAtt /\ gpIdx' = gpIdx
                    /\ ttAsked' = ttAsked + 1
                    /\ ttFailed' = IF out = "ok" THEN ttFailed ELSE ttFailed + 1
                    /\ IF gpRet = "move_rel"
                       THEN pc' = "mr_move" /\ ret' = ret
                       ELSE pc' = "done" /\ ret' = "mapping"
    /\ UNCHANGED <<op, batch, dir, listNone, attempt, idx, elapsed,
                   stopped, devPos, gpList, gpRet, written, logs, nConn,
                   bodyRuns, visited, replies, prim, devVel, entryPos, labels, others>>

\* --------------------------------------------------------------- abort
CallAbort ==
    /\ Enter("abort")
    /\ pc' = "ab_write" /\ batch' = <<>> /\ idx' = 1 /\ bodyRuns' = 0
    /\ UNCHANGED <<dir, listNone>>
    /\ GpIdle

\* one round of "for axis_label in constraints: self._write_xyz(.., 'AB')"
AbortWrite ==
    /\ pc = "ab_write"
    /\ \E out \in WriteOutcomes :
        /\ WriteXyz(Axes[idx], "AB", 0, out)
        /\ logs' = logs \cup WriteLogs(out)
    /\ IF idx < Len(Axes)
       THEN idx' = idx + 1 /\ pc' = pc
       ELSE idx' = idx /\ pc' = "ab_wait"
    /\ UNCHANGED <<op, batch, dir, listNone, attempt, elapsed, stopped,
                   ret, gp, asked, nConn, bodyRuns, visited, replies, prim, devVel, entryPos, labels, others>>

\* one round of "while not self._motor_stopped(): time.sleep(0.2)"
AbortWait ==
    /\ pc = "ab_wait"
    /\ \E o \in Oracles :
        /\ MotorStopped(o) = "false" => elapsed < MaxPolls
        /\ PollWire(o)
        /\ IF MotorStopped(o) = "raised"
           THEN /\ pc' = "done" /\ ret' = "-1" /\ elapsed' = elapsed
                /\ logs' = logs \cup PollLogs(o) \cup {"not_stopped"}
           ELSE IF MotorStopped(o) = "true"
           THEN /\ pc' = "done" /\ ret' = "0" /\ elapsed' = elapsed
                /\ logs' = logs \cup PollLogs(o)
           ELSE /\ pc' = pc /\ ret' = ret /\ elapsed' = elapsed + 1
                /\ logs' = logs \cup PollLogs(o)
    /\ UNCHANGED <<op, batch, dir, listNone, attempt, idx, gp, nConn,
                   bodyRuns, visited, replies, prim, devVel, entryPos, labels, others>>

\* ----------------------------------------------------------- calibrate
CallCalibrate ==
    \E l \in CalLists, none \in BOOLEAN, d \in Directions :
        /\ Enter("calibrate")
        /\ pc' = "cal_check" /\ dir' = d /\ listNone' = none
        /\ batch' = IF none THEN <<>>
                    ELSE [i \in 1..Len(l) |-> [axis |-> l[i], val |-> 0]]
        /\ idx' = 1 /\ bodyRuns' = 0
        /\ GpIdle

\* the direction check of calibrate; with param_list = None the first loop's
\* TypeError is caught and logged, the second loop's is not
CalibrateCheck ==
    /\ pc = "cal_check"
    /\ IF ~DirectionValid(dir)
       THEN pc' = "done" /\ ret' = "ValueError" /\ logs' = logs
       ELSE IF listNone
       THEN pc' = "done" /\ ret' = "TypeError"
            /\ logs' = logs \cup {"calibration_failed"}
       ELSE pc' = "cal_fe" /\ ret' = ret /\ logs' = logs
    /\ UNCHANGED <<op, batch, dir, listNone, attempt, idx, elapsed,
                   stopped, devPos, gp, written, asked, touched, faulted,
                   nConn, bodyRuns, visited, replies, prim, devVel, entryPos, labels, others>>

HomingArgNegative(direction) == 1
\* f'FE{int(direction)}'
HomingArg(direction) == direction

\* one round of "for axis_label in param_list: _write_xyz(.., 'FE<d>')";
\* after the last one param_dict is all 0.0 and move_abs is entered
CalibrateWrite ==
    /\ pc = "cal_fe"
    /\ \E out \in WriteOutcomes :
        /\ WriteXyz(batch[idx].axis, "FE", HomingArg(dir), out)
        /\ logs' = IF idx < Len(batch) THEN logs \cup WriteLogs(out)
                   ELSE logs \cup WriteLogs(out) \cup {"homing"}
    /\ IF idx < Len(batch)
       THEN idx' = idx + 1 /\ pc' = pc /\ bodyRuns' = bodyRuns
       ELSE idx' = 1 /\ pc' = "ma_axis" /\ bodyRuns' = 1
    /\ UNCHANGED <<op, batch, dir, listNone, attempt, elapsed, stopped,
                   ret, gp, asked, nConn, visited, replies, prim, devVel, entryPos, labels, others>>

\* -------------------------------------------------------- set_velocity
VelInRange(vel) == VelMin <= vel /\ vel <= VelMax

DoSetVelocityChecked(axis, vel, out) ==
    IF VelInRange(vel) THEN WriteXyz(axis, "SV", ToRaw(vel), out)
    ELSE UNCHANGED <<written, touched, faulted, devPos>>
\* vel = int(param_dict[axis_label] * 1.0e7); _write_xyz(axis_label, 'SV<vel>')
DoSetVelocity(axis, vel, out) == WriteXyz(axis, "SV", ToRaw(vel), out)

CallSetVelocity ==
    \E b \in Batches(Velocities) :
        /\ Enter("set_velocity")
        /\ batch' = b /\ idx' = 1 /\ bodyRuns' = 0 /\ pc' = "sv_axis"
        /\ UNCHANGED <<dir, listNone>>
        /\ GpIdle

\* one round of "for axis_label in param_dict" of set_velocity; nothing in
\* the try block raises, since _write_xyz returns -1 instead
SetVelocityAxis ==
    /\ pc = "sv_axis"
    /\ \E out \in WriteOutcomes :
        /\ DoSetVelocity(batch[idx].axis, batch[idx].val, out)
        /\ logs' = logs \cup WriteLogs(out)
    /\ IF idx < Len(batch)
       THEN idx' = idx + 1 /\ pc' = pc /\ ret' = ret
       ELSE idx' = idx /\ pc' = "done" /\ ret' = "param_dict"
    /\ UNCHANGED <<op, batch, dir, listNone, attempt, elapsed, stopped,
                   gp, asked, nConn, bodyRuns, visited, replies, prim, devVel, entryPos, labels, others>>

\* ------------------------------------------- get_status, get_velocity
\* what a device answers to TS or TY after the colon
QueryVals == StatusVals

OneShotFailsSkips ==
    /\ gpRes' = gpRes
    /\ IF gpIdx < Len(gpList)
       THEN gpIdx' = gpIdx + 1 /\ pc' = pc /\ ret' = ret
       ELSE gpIdx' = gpIdx /\ pc' = "done" /\ ret' = "mapping"
\* except: self.log.error(..); return -1  (param_dict is dropped)
OneShotFails ==
    /\ gpRes' = <<>> /\ gpIdx' = gpIdx
    /\ pc' = "done" /\ ret' = "-1"

\* one round of "for axis_label in ..." of get_status (TS) or get_velocity
\* (TY): one _ask_xyz, the split at the first colon, for TY int() * 1e-7
\* vals[a] are the values the device may answer with for axis a
OneShotAxisFrom(name, opcode, vals) ==
    /\ pc = "q_axis" /\ op = name
    /\ \E out \in AskOutcomes, v \in vals[gpList[gpIdx]] :
        LET a == gpList[gpIdx]
        IN  /\ touched' = TRUE
            /\ asked' = asked \cup {<<a, opcode>>}
            /\ nAsk' = nAsk + 1
            /\ faulted' = (faulted \/ out # "ok")
            /\ IF out # "ok"
               THEN /\ OneShotFails
                    /\ logs' = logs \cup {"request_failed"}
               ELSE /\ gpRes' = [b \in DOMAIN gpRes \cup {a} |->
                                    IF b # a THEN gpRes[b]
                                    ELSE IF opcode = "TY" THEN FromRaw(v)
                                    ELSE v]
                    /\ logs' = logs
                    /\ IF gpIdx < Len(gpList)
                       THEN gpIdx' = gpIdx + 1 /\ pc' = pc /\ ret' = ret
                       ELSE gpIdx' = gpIdx /\ pc' = "done" /\ ret' = "mapping"
    /\ UNCHANGED <<op, batch, dir, listNone, attempt, idx, elapsed, stopped,
                   devPos, gpList, gpAtt, gpRet, ttAsked, ttFailed, written,
                   nConn, bodyRuns, visited, replies, wire, answer, devVel, entryPos, labels, others>>

OneShotAxis(name, opcode) ==
    OneShotAxisFrom(name, opcode, [a \in AxisSet |-> QueryVals])

\* param_list = None asks every axis of the constraints
CallGetStatus ==
    \E l \in AxisLists \cup {Axes} :
        /\ Enter("get_status")
        /\ pc' = "q_axis" /\ GpCall(l, "public")
        /\ batch' = <<>> /\ idx' = 0 /\ bodyRuns' = 0
        /\ UNCHANGED <<dir, listNone>>

GetStatusAxis == OneShotAxis("get_status", "TS")

CallGetVelocity ==
    \E l \in AxisLists \cup {Axes} :
        /\ Enter("get_velocity")
        /\ pc' = "q_axis" /\ GpCall(l, "public")
        /\ batch' = <<>> /\ idx' = 0 /\ bodyRuns' = 0
        /\ UNCHANGED <<dir, listNone>>

GetVelocityAxis == OneShotAxis("get_velocity", "TY")

Next ==
    \/ CallMoveAbs \/ MoveAbsAxis \/ MoveAbsWait
    \/ CallMoveRel \/ MoveRelAxis \/ MoveRelMove
    \/ CallGetPos \/ GetPosAttempt
    \/ CallAbort \/ AbortWrite \/ AbortWait
    \/ CallCalibrate \/ CalibrateCheck \/ CalibrateWrite
    \/ CallSetVelocity \/ SetVelocityAxis
    \/ CallGetStatus \/ GetStatusAxis
    \/ CallGetVelocity \/ GetVelocityAxis

Spec == Init /\ [][Next]_vars

\* -------------------------------------------- _motor_stopped on its own
\* one call of _motor_stopped() with the replies the transport gives
StoppedCall ==
    /\ pc = "idle"
    /\ \E o \in Oracles :
        /\ replies' = o
        /\ stopped' = MotorStopped(o)
    /\ pc' = "done" /\ op' = "_motor_stopped"
    /\ UNCHANGED <<batch, dir, listNone, attempt, idx, elapsed, ret,
                   gp, obs, devPos, prim, devVel, entryPos, labels, others>>

SpecStopped == Init /\ [][StoppedCall]_vars

\* ----------------------------------------------- move_abs on its own
\* a target inside and a target outside the bounds
BoundaryTargets == {PosMax, PosMax + 1}

CallMoveAbsBoundary == CallMoveAbsWith(BoundaryTargets)

NextMoveAbs == CallMoveAbsBoundary \/ MoveAbsAxis \/ MoveAbsWait

\* every single read and write of the transport returns or raises and the
\* clock advances: a step of move_abs that can be taken is taken
SpecMoveAbs ==
    /\ Init /\ [][NextMoveAbs]_vars
    /\ WF_vars(MoveAbsAxis) /\ WF_vars(MoveAbsWait)

\* ------------------------------------------------- finish_calibrate
MayDefineHomeAlways(s) == TRUE
\* if not self._motor_stopped(): warn and return get_pos()
MayDefineHome(s) == s = "true"

CallFinishCalibrate ==
    \E l \in CalLists, none \in BOOLEAN :
        /\ Enter("finish_calibrate")
        /\ pc' = "fc_check" /\ listNone' = none
        /\ batch' = IF none THEN <<>>
                    ELSE [i \in 1..Len(l) |-> [axis |-> l[i], val |-> 0]]
        /\ idx' = 1 /\ bodyRuns' = 0
        /\ UNCHANGED dir
        /\ GpIdle

\* the _motor_stopped() check at the entry of finish_calibrate; its replies
\* are recorded.  An exception of the check leaves finish_calibrate; with
\* param_list = None the loop over it raises TypeError
FinishCheck ==
    /\ pc = "fc_check"
    /\ \E o \in Oracles :
        /\ PollWire(o)
        /\ replies' = o
        /\ IF MotorStopped(o) = "raised"
           THEN /\ pc' = "done" /\ ret' = "UnboundLocalError"
                /\ logs' = logs \cup PollLogs(o)
                /\ UNCHANGED gp
           ELSE IF ~MayDefineHome(MotorStopped(o))
           THEN /\ pc' = "gp" /\ ret' = ret
                /\ logs' = logs \cup PollLogs(o) \cup {"still_moving"}
                /\ GpCall(Axes, "finish_calibrate")
           ELSE IF listNone
           THEN /\ pc' = "done" /\ ret' = "TypeError"
                /\ logs' = logs \cup PollLogs(o)
                /\ UNCHANGED gp
           ELSE /\ pc' = "fc_dh" /\ ret' = ret
                /\ logs' = logs \cup PollLogs(o)
                /\ UNCHANGED gp
    /\ UNCHANGED <<op, batch, dir, listNone, attempt, idx, elapsed,
                   nConn, bodyRuns, visited, prim, devVel, entryPos, labels, others>>

\* one round of "for axis_label in param_list: _write_xyz(.., 'DH')"; after
\* the last one get_pos() is entered
FinishWrite ==
    /\ pc = "fc_dh"
    /\ \E out \in WriteOutcomes :
        /\ WriteXyz(batch[idx].axis, "DH", 0, out)
        /\ logs' = logs \cup WriteLogs(out)
    /\ IF idx < Len(batch)
       THEN idx' = idx + 1 /\ pc' = pc /\ UNCHANGED gp
       ELSE idx' = idx /\ pc' = "gp" /\ GpCall(Axes, "finish_calibrate")
    /\ UNCHANGED <<op, batch, dir, listNone, attempt, elapsed, stopped,
                   ret, asked, nConn, bodyRuns, visited, replies, prim, devVel, entryPos, labels, others>>

NextFinish ==
    \/ CallFinishCalibrate \/ FinishCheck \/ FinishWrite \/ GetPosAttempt

SpecFinish == Init /\ [][NextFinish]_vars

\* ------------------------------------- _write_xyz, _ask_xyz on their own
\* constraints[axis]['ID']
AxisId(axis) == IF axis = "x" THEN "1" ELSE IF axis = "y" THEN "2" ELSE "3"

\* the characters of what read() returns: a payload character and the two
\* line terminators \r, \n
Chars == {"7", "CR", "LF"}
Fragments == UNION {[1..n -> Chars] : n \in 0..MaxFrag}
\* what read() returns while a command is drained
EchoFragments == {<<>>, <<"7", "LF">>}

\* str(raw_ret).replace("\r", "").replace("\n", "")
Strip(f) == SelectSeq(f, LAMBDA c : c \notin {"CR", "LF"})

\* read()[:-1]
DropLast(f) == IF f = <<>> THEN f ELSE SubSeq(f, 1, Len(f) - 1)

NchunksOne(question) == 1
\* the nchunks the callers of _ask_xyz pass with TT, TS and TY
Nchunks(question) == 3

FinishedReadingAlways(out) == TRUE
\* except: finished_reading = True
FinishedReading(out) == out = "raise"

WireWrite(axis, command, out) ==
    [call |-> "write", cmd |-> <<AxisId(axis), command>>, out |-> out,
     frag |-> <<>>]
WireRead(out, f) ==
    [call |-> "read", cmd |-> <<>>, out |-> out, frag |-> f]

\* _ask_xyz up to its loop: the write of ID + question; an exception of the
\* write leaves _ask_xyz
AskCall ==
    /\ pc = "idle"
    /\ \E a \in AxisSet, q \in {"TT", "TS", "TY"}, out \in WriteOutcomes :
        /\ wire' = <<WireWrite(a, q, IF out = "ok" THEN "ok" ELSE "raise")>>
        /\ IF out = "ok" THEN pc' = "ask_read" /\ ret' = ret
           ELSE pc' = "done" /\ ret' = "raised"
    /\ op' = "_ask_xyz" /\ idx' = 0 /\ answer' = <<>>
    /\ UNCHANGED <<batch, dir, listNone, attempt, elapsed, stopped, gp, obs,
                   devPos, replies, nAsk, devVel, entryPos, labels, others>>

\* one round of "for i in range(nchunks)": a read, and its fragment without
\* line terminators appended to str_ret
AskRead ==
    /\ pc = "ask_read"
    /\ \/ /\ wire' = Append(wire, WireRead("raise", <<>>))
          /\ pc' = "done" /\ ret' = "raised"
          /\ UNCHANGED <<idx, answer>>
       \/ \E f \in Fragments :
          /\ wire' = Append(wire, WireRead("ok", f))
          /\ answer' = answer \o Strip(f)
          /\ idx' = idx + 1
          /\ IF idx + 1 < Nchunks(wire[1].cmd[2])
             THEN pc' = pc /\ ret' = ret
             ELSE pc' = "done" /\ ret' = "str_ret"
    /\ UNCHANGED <<op, batch, dir, listNone, attempt, elapsed, stopped, gp,
                   obs, devPos, replies, nAsk, devVel, entryPos, labels, others>>

\* _write_xyz up to the loop of _read_answer_xyz: the write of ID + command
WriteCall ==
    /\ pc = "idle"
    /\ \E a \in AxisSet, c \in {"AB", "DH"}, out \in WriteOutcomes :
        /\ wire' = <<WireWrite(a, c, IF out = "ok" THEN "ok" ELSE "raise")>>
        /\ IF out = "ok" THEN pc' = "wr_read" /\ ret' = ret /\ logs' = logs
           ELSE pc' = "done" /\ ret' = "-1"
                /\ logs' = logs \cup WriteLogs(out)
    /\ op' = "_write_xyz" /\ answer' = <<>> /\ elapsed' = 0
    /\ UNCHANGED <<batch, dir, listNone, attempt, idx, stopped, gp,
                   written, asked, touched, faulted, nConn, bodyRuns, visited,
                   devPos, replies, nAsk, devVel, entryPos, labels, others>>

\* one round of the loop of _read_answer_xyz: the timeout test, then a read
\* that returns (the loop goes on) or raises (the loop ends); a read may take
\* no measurable time, MaxReads bounds how many reads are followed
WriteRead ==
    /\ pc = "wr_read"
    /\ IF TimedOut(elapsed)
       THEN /\ pc' = "done" /\ ret' = "0"
            /\ logs' = logs \cup {"read_timed_out"}
            /\ UNCHANGED <<wire, answer, elapsed>>
       ELSE \E out \in {"ok", "raise"}, f \in EchoFragments,
               t \in {elapsed, Tick(elapsed)} :
            /\ out = "raise" => f = <<>>
            /\ (out = "ok" /\ Len(wire) > MaxReads) => t # elapsed
            /\ wire' = Append(wire, WireRead(out, f))
            /\ answer' = IF out = "ok" THEN answer \o DropLast(f) ELSE answer
            /\ elapsed' = t
            /\ logs' = logs
            /\ IF FinishedReading(out)
               THEN pc' = "done" /\ ret' = "0"
               ELSE pc' = pc /\ ret' = ret
    /\ UNCHANGED <<op, batch, dir, listNone, attempt, idx, stopped, gp,
                   written, asked, touched, faulted, nConn, bodyRuns, visited,
                   devPos, replies, nAsk, devVel, entryPos, labels, others>>

NextPrim == AskCall \/ AskRead \/ WriteCall \/ WriteRead

SpecPrim == Init /\ [][NextPrim]_vars

\* ------------------------------------------------- the round trips
\* a call followed by the call that reads back what it set.  Here the stage
\* keeps the velocity of every SV command it receives and reports it on TY,
\* and the floating point product value * 1e7 is followed: every value of a
\* mapping comes with the way its product lands (fp).
TripTargets == {0 - SubPerRaw, SubPerRaw + 1, PosMax}
TripVelocities == {VelMin, VelMin + 1, VelMax + SubPerRaw}

\* the mappings of the round trips name one axis
TripBatches(vals) ==
    {<<[axis |-> a, val |-> v, fp |-> f]>> :
        a \in AxisSet, v \in vals, f \in FloatLandings}

\* the axis labels of a mapping, in its order
Keys(b) == [i \in DOMAIN b |-> b[i].axis]

\* _do_move_abs with the floating point product followed
DoMoveAbsFloat(axis, move, fp, out) ==
    IF ~InBounds(axis, move)
    THEN UNCHANGED <<written, touched, faulted, devPos>>
    ELSE WriteXyz(axis, "MA", ToRawFloat(move, fp), out)

CallMoveAbsTrip ==
    \E b \in TripBatches(TripTargets) :
        /\ Enter("move_abs")
        /\ batch' = b /\ idx' = 1 /\ bodyRuns' = 1 /\ pc' = "ma_axis"
        /\ UNCHANGED <<dir, listNone>>
        /\ GpIdle

\* one round of "for axis_label in param_dict" of move_abs
MoveAbsAxisFloat ==
    /\ pc = "ma_axis"
    /\ \E out \in WriteOutcomes :
        LET a == batch[idx].axis
            move == batch[idx].val
        IN  /\ DoMoveAbsFloat(a, move, batch[idx].fp, out)
            /\ logs' = logs \cup DoMoveAbsLogs(a, move, out)
    /\ IF idx < Len(batch)
       THEN idx' = idx + 1 /\ pc' = pc
       ELSE idx' = idx /\ pc' = "ma_wait"
    /\ elapsed' = 0
    /\ UNCHANGED <<asked, op, batch, dir, listNone, attempt, stopped, ret,
                   gp, nConn, bodyRuns, visited, replies, prim, devVel, entryPos, labels, others>>

\* the caller goes on with get_pos for the axes it has moved
ThenGetPos ==
    /\ pc = "done" /\ op = "move_abs"
    /\ op' = "get_pos" /\ pc' = "gp" /\ ret' = "none"
    /\ GpCall(Keys(batch), "public")
    /\ UNCHANGED <<batch, dir, listNone, attempt, idx, elapsed, stopped,
                   obs, devPos, replies, prim, devVel, entryPos, labels, others>>

CallSetVelocityTrip ==
    \E b \in TripBatches(TripVelocities) :
        /\ Enter("set_velocity")
        /\ batch' = b /\ idx' = 1 /\ bodyRuns' = 0 /\ pc' = "sv_axis_fp"
        /\ UNCHANGED <<dir, listNone>>
        /\ GpIdle

\* one round of "for axis_label in param_dict" of set_velocity; the stage
\* takes the velocity of an SV command whose write returned
SetVelocityAxisFloat ==
    /\ pc = "sv_axis_fp"
    /\ \E out \in WriteOutcomes :
        LET a == batch[idx].axis
            vel == ToRawFloat(batch[idx].val, batch[idx].fp)
        IN  /\ WriteXyz(a, "SV", vel, out)
            /\ devVel' = IF out = "ok" THEN [devVel EXCEPT ![a] = vel]
                         ELSE devVel
            /\ logs' = logs \cup WriteLogs(out)
    /\ IF idx < Len(batch)
       THEN idx' = idx + 1 /\ pc' = pc /\ ret' = ret
       ELSE idx' = idx /\ pc' = "done" /\ ret' = "param_dict"
    /\ UNCHANGED <<op, batch, dir, listNone, attempt, elapsed, stopped,
                   gp, asked, nConn, bodyRuns, visited, replies, prim,
                   entryPos, labels, others>>

\* the caller goes on with get_velocity for the axes it has set
ThenGetVelocity ==
    /\ pc = "done" /\ op = "set_velocity"
    /\ op' = "get_velocity" /\ pc' = "q_axis" /\ ret' = "none"
    /\ GpCall(Keys(batch), "public")
    /\ UNCHANGED <<batch, dir, listNone, attempt, idx, elapsed, stopped,
                   obs, devPos, replies, prim, devVel, entryPos, labels, others>>

\* get_velocity with the stage answering TY with the velocity it keeps
GetVelocityOfStage ==
    OneShotAxisFrom("get_velocity", "TY", [a \in AxisSet |-> {devVel[a]}])

NextTrip ==
    \/ CallMoveAbsTrip \/ MoveAbsAxisFloat \/ MoveAbsWait
    \/ ThenGetPos \/ GetPosAttempt
    \/ CallSetVelocityTrip \/ SetVelocityAxisFloat
    \/ ThenGetVelocity \/ GetVelocityOfStage

SpecTrip == Init /\ [][NextTrip]_vars

\* --------------------------------------------------------- on_activate
\* the labels a configuration may give to the three axes
LabelPool == {"x", "y", "z", "a"}
LabelConfigs ==
    {l \in [1..3 -> LabelPool] : \A i, j \in 1..3 : i # j => l[i] # l[j]}

\* vel_default
VelDefault == VelMin

\* _write_xyz with the lookup constraints[axis]: for a label that is not
\* configured the KeyError is caught like every other exception, before
\* anything is written
WriteXyzLabelled(axis, opcode, arg, out) ==
    IF axis \in {labels[i] : i \in DOMAIN labels}
    THEN WriteXyz(axis, opcode, arg, out)
    ELSE UNCHANGED <<written, touched, faulted, devPos>>

WriteLogsLabelled(axis, out) ==
    IF axis \in {labels[i] : i \in DOMAIN labels} THEN WriteLogs(out)
    ELSE {"cmd_not_accepted"}

\* on_activate up to its set_velocity call: the mapping with the literal
\* keys 'x', 'y', 'z'
CallOnActivate ==
    /\ Enter("on_activate")
    /\ batch' = [i \in 1..3 |-> [axis |-> Axes[i], val |-> VelDefault]]
    /\ idx' = 1 /\ bodyRuns' = 0 /\ pc' = "act_sv"
    /\ UNCHANGED <<dir, listNone>>
    /\ GpIdle

\* one round of the loop of set_velocity inside on_activate; after the last
\* one on_activate returns 0
ActivateSetVelocity ==
    /\ pc = "act_sv"
    /\ \E out \in WriteOutcomes :
        LET a == batch[idx].axis
        IN  /\ WriteXyzLabelled(a, "SV", ToRaw(batch[idx].val), out)
            /\ logs' = logs \cup WriteLogsLabelled(a, out)
    /\ IF idx < Len(batch)
       THEN idx' = idx + 1 /\ pc' = pc /\ ret' = ret
       ELSE idx' = idx /\ pc' = "done" /\ ret' = "0"
    /\ UNCHANGED <<op, batch, dir, listNone, attempt, elapsed, stopped,
                   gp, asked, nConn, bodyRuns, visited, replies, prim,
                   devVel, entryPos, labels, others>>

InitActivate == InitCommon /\ labels \in LabelConfigs

NextActivate == CallOnActivate \/ ActivateSetVelocity

SpecActivate == InitActivate /\ [][NextActivate]_vars

\* ------------------------------------------------------ dummy wavemeter
\* Two threads: the calling thread runs start_acquisition, stop_acquisition
\* and set_timing, each as one step; the measurement thread handles the
\* queued sig_handle_timer signals and the timeouts of its timer in its own
\* event loop, one at a time.  _measure_thread takes no lock: its check of
\* is_running, its read and its write of the wavelength are separate steps.
\* Lengths are integers in units of range_step.

\* the largest wavelength followed, and the signals that may wait
WlMax == 5
MaxQueue == 2

\* the wavelengths start_acquisition draws (420 nm to 1100 nm), the changes
\* one timeout draws (within +-range_step), the timings set_timing is given
WlStarts == {2, 3}
WlSteps == {-1, 1}
Timings == {1, 2}

\* the setter of current_wavelength: only a positive value is stored
SetWavelength(old, new) == IF new > 0 THEN new ELSE old

\* the setter of is_running
SetRunning(old, run) ==
    IF old /\ ~run THEN FALSE ELSE IF ~old /\ run THEN TRUE ELSE old

\* the status check of start_acquisition
BusyNever(running) == FALSE
Busy(running) == running

\* a call of the calling thread returns r
WmReturns(call, r) ==
    /\ wmPc = "idle" /\ wmPc' = "returned"
    /\ wmCall' = call /\ wmRet' = r
    /\ lastOk' = IF r = 0 /\ call \in {"start", "stop"} THEN call ELSE lastOk

start_acquisition ==
    /\ IF Busy(isRunning)
       THEN /\ WmReturns("start", -1)
            /\ UNCHANGED <<isRunning, wavelength, sigQueue>>
       ELSE /\ Len(sigQueue) < MaxQueue
            /\ isRunning' = TRUE
            /\ \E w \in WlStarts : wavelength' = SetWavelength(wavelength, w)
            /\ sigQueue' = Append(sigQueue, TRUE)
            /\ WmReturns("start", 0)
    /\ UNCHANGED <<timing, timer, hwPc, hwTmp, motor, lq, od>>

stop_acquisition ==
    /\ IF isRunning
       THEN /\ Len(sigQueue) < MaxQueue
            /\ sigQueue' = Append(sigQueue, FALSE)
       ELSE sigQueue' = sigQueue
    /\ isRunning' = SetRunning(SetRunning(isRunning, FALSE), FALSE)
    /\ WmReturns("stop", 0)
    /\ UNCHANGED <<wavelength, timing, timer, hwPc, hwTmp, motor, lq, od>>

set_timing ==
    /\ Len(sigQueue) < MaxQueue
    /\ \E t \in Timings : timing' = t
    /\ sigQueue' = Append(sigQueue, TRUE)
    /\ WmReturns("set_timing", 0)
    /\ UNCHANGED <<isRunning, wavelength, timer, hwPc, hwTmp, motor, lq, od>>

\* the calling thread goes on to its next call
WmNextCall ==
    /\ wmPc = "returned" /\ wmPc' = "idle"
    /\ UNCHANGED <<isRunning, wavelength, timing, sigQueue, timer, hwPc,
                   hwTmp, wmCall, wmRet, lastOk, motor, lq, od>>

\* handle_timer, between two timeouts: True makes a new running timer (the
\* one before it is dropped), False stops the timer if there is one
handle_timer ==
    /\ hwPc = "idle" /\ sigQueue # <<>>
    /\ timer' = IF Head(sigQueue) THEN "active"
                ELSE IF timer = "none" THEN "none" ELSE "stopped"
    /\ sigQueue' = Tail(sigQueue)
    /\ UNCHANGED <<isRunning, wavelength, timing, hwPc, hwTmp,
                   wmPc, wmCall, wmRet, lastOk, motor, lq, od>>

\* _measure_thread, on a timeout of the running timer: the check of
\* is_running (a timeout that finds it False changes nothing)
MeasureCheck ==
    /\ hwPc = "idle" /\ timer = "active"
    /\ isRunning
    /\ hwPc' = "checked"
    /\ UNCHANGED <<isRunning, wavelength, timing, sigQueue, timer, hwTmp,
                   wmPc, wmCall, wmRet, lastOk, motor, lq, od>>

\* ... the read of current_wavelength ...
MeasureRead ==
    /\ hwPc = "checked"
    /\ hwTmp' = wavelength /\ hwPc' = "read"
    /\ UNCHANGED <<isRunning, wavelength, timing, sigQueue, timer,
                   wmPc, wmCall, wmRet, lastOk, motor, lq, od>>

\* ... and the write of the changed value through the setter
MeasureWrite ==
    /\ hwPc = "read"
    /\ \E d \in WlSteps :
        /\ hwTmp + d <= WlMax
        /\ wavelength' = SetWavelength(wavelength, hwTmp + d)
    /\ hwPc' = "idle" /\ hwTmp' = 0
    /\ UNCHANGED <<isRunning, timing, sigQueue, timer,
                   wmPc, wmCall, wmRet, lastOk, motor, lq, od>>

NextWavemeter ==
    \/ start_acquisition \/ stop_acquisition \/ set_timing \/ WmNextCall
    \/ handle_timer \/ MeasureCheck \/ MeasureRead \/ MeasureWrite

\* the stage plays no part
InitNoStage == Init /\ devPos = [a \in AxisSet |-> 0]

SpecWavemeter == InitNoStage /\ [][NextWavemeter]_vars


\* ---------------------------------------------------- LaserQuantum laser
\* PSUTypes and LaserState
PSUTypes == {"MPC6000", "MPC3000", "SMD12", "SMD6000"}
LaserStates == {"OFF", "ON", "LOCKED", "UNKNOWN"}

\* what the power supply may answer to the status query, as characters
EnabledStr == <<"E", "N", "A", "B", "L", "E", "D">>
DisabledStr == <<"D", "I", "S", "A", "B", "L", "E", "D">>
StatusReplies ==
    {EnabledStr, DisabledStr, <<"L", "A", "S", "E", "R", " ">> \o EnabledStr,
     DisabledStr \o <<" ">>, <<"E", "N", "A", "B", "L", "E">>, <<>>}

\* needle in hay, for strings
In(needle, hay) ==
    \E i \in 1..(Len(hay) - Len(needle) + 1) :
        SubSeq(hay, i, i + Len(needle) - 1) = needle

\* the query and the classification of get_laser_state
StatusQuery(p) == IF p = "SMD6000" THEN "STAT?" ELSE "STATUS?"
LaserStateOf(state) ==
    IF In(EnabledStr, state) THEN "ON"
    ELSE IF In(DisabledStr, state) THEN "OFF"
    ELSE "UNKNOWN"

\* the comparison of set_laser_state
DiffersAlways(found, status) == TRUE
Differs(found, status) == found # status

\* set_laser_state(status) is called, on any power supply
CallSetLaserState ==
    /\ lqPc = "idle"
    /\ \E p \in PSUTypes : psu' = p
    /\ \E status \in LaserStates : lqStatus' = status
    /\ lqState' = "none" /\ lqSent' = <<>>
    /\ lqPc' = "get_state"
    /\ UNCHANGED <<motor, wm, od>>

\* get_laser_state: the query answers or raises
GetLaserState ==
    /\ lqPc = "get_state"
    /\ lqSent' = Append(lqSent, StatusQuery(psu))
    /\ \/ \E state \in StatusReplies :
            lqState' = LaserStateOf(state) /\ lqPc' = "compare"
       \/ lqState' = lqState /\ lqPc' = "raised"
    /\ UNCHANGED <<psu, lqStatus, motor, wm, od>>

\* the rest of set_laser_state; the query of the command answers or raises
SetLaserStateCommand ==
    /\ lqPc = "compare"
    /\ IF Differs(lqState, lqStatus) /\ lqStatus \in {"ON", "OFF"}
       THEN /\ lqSent' = Append(lqSent, lqStatus)
            /\ lqPc' \in {"done", "raised"}
       ELSE /\ lqSent' = lqSent
            /\ lqPc' = "done"
    /\ UNCHANGED <<psu, lqStatus, lqState, motor, wm, od>>

\* the caller goes on to its next call
LaserNextCall ==
    /\ lqPc \in {"done", "raised"} /\ lqPc' = "idle"
    /\ UNCHANGED <<psu, lqStatus, lqState, lqSent, motor, wm, od>>

NextLaser ==
    CallSetLaserState \/ GetLaserState \/ SetLaserStateCommand \/ LaserNextCall

SpecLaser == InitNoStage /\ [][NextLaser]_vars


\* ------------------------------------------------------- ODMR interfuse
\* The interfuse defines on_activate, __getattr__ and acquire_frame only:
\* every other attribute it reads is looked up by __getattr__ on the device
\* that _interface names, and an attribute it assigns becomes its own.  The
\* two devices implement their interfaces and their methods do not raise.

\* the values of default_interface, the frame sizes (None is 0)
Interfaces ==
    {"MicrowaveInterface", "FiniteSamplingInputInterface", "SwitchInterface"}
FrameSizes == {1, 2}

\* the attributes of the interfuse instance itself, and those of its devices
OwnAttributes ==
    (IF odHasLock THEN {"_thread_lock"} ELSE {})
        \cup (IF odOwnFrame # 0 THEN {"_frame_size"} ELSE {})
SamplerAttributes ==
    {"_thread_lock", "_frame_size", "set_frame_size",
     "start_buffered_acquisition", "get_buffered_samples",
     "stop_buffered_acquisition"}
MicrowaveAttributes == {"_thread_lock", "trigger"}

\* self.<name>: the object that provides it; "error" is the AttributeError
\* of the device, "None" what __getattr__ returns for any other _interface
Resolve(name) ==
    IF name \in OwnAttributes THEN "own"
    ELSE IF odInterface = "FiniteSamplingInputInterface"
    THEN IF name \in SamplerAttributes THEN "sampler" ELSE "error"
    ELSE IF odInterface = "MicrowaveInterface"
    THEN IF name \in MicrowaveAttributes THEN "microwave" ELSE "error"
    ELSE "None"

\* self._frame_size where it resolves
FrameSizeOf(owner) ==
    IF owner = "own" THEN odOwnFrame ELSE IF owner = "sampler" THEN smFrame
    ELSE 0

\* an exception leaves both with blocks
OdRaise == odPc' = "raised" /\ held' = [l \in Locks |-> 0]

\* a device call is recorded with the locks held at that moment
OdRecord(step, size) ==
    odTrace' = Append(odTrace, [step |-> step, size |-> size,
                                locks |-> {l \in Locks : held[l] > 0}])

\* on_activate, under any configuration and any kind of locks
OdmrOnActivate ==
    /\ odPc = "new" /\ odPc' = "idle"
    /\ odInterface' \in Interfaces
    /\ odHasLock' \in BOOLEAN /\ smRecursive' \in BOOLEAN
    /\ UNCHANGED <<odOwnFrame, smFrame, held, odFirst, odArg, odBuf, odEntry,
                   odTrace, motor, wm, lq>>

CallAcquireFrame ==
    /\ odPc = "idle" /\ odPc' = "lock_self"
    /\ odArg' \in {0} \cup FrameSizes
    /\ odBuf' = 0 /\ odEntry' = smFrame /\ odTrace' = <<>> /\ odFirst' = "none"
    /\ UNCHANGED <<odInterface, odHasLock, smRecursive, odOwnFrame, smFrame,
                   held, motor, wm, lq>>

\* with self._thread_lock
LockSelf ==
    /\ odPc = "lock_self"
    /\ LET o == Resolve("_thread_lock")
       IN  IF o \in Locks
           THEN /\ held' = [held EXCEPT ![o] = 1]
                /\ odFirst' = o /\ odPc' = "lock_scanner"
           ELSE OdRaise /\ odFirst' = odFirst
    /\ UNCHANGED <<odInterface, odHasLock, smRecursive, odOwnFrame, smFrame,
                   odArg, odBuf, odEntry, odTrace, motor, wm, lq>>

\* with scanner._thread_lock: a lock that is not recursive and already held
\* by this thread is waited for without end
LockScanner ==
    /\ odPc = "lock_scanner"
    /\ IF held["sampler"] = 0 \/ smRecursive
       THEN /\ held' = [held EXCEPT !["sampler"] = @ + 1]
            /\ odPc' = "frame"
       ELSE held' = held /\ odPc' = "blocked"
    /\ UNCHANGED <<odInterface, odHasLock, smRecursive, odOwnFrame, smFrame,
                   odFirst, odArg, odBuf, odEntry, odTrace, motor, wm, lq>>

\* the frame size is remembered and set
SetFrameSize ==
    /\ odPc = "frame"
    /\ IF odArg = 0
       THEN /\ odBuf' = 0 /\ smFrame' = smFrame
            /\ odPc' = "start" /\ held' = held
       ELSE IF Resolve("_frame_size") = "error"
       THEN odBuf' = odBuf /\ smFrame' = smFrame /\ OdRaise
       ELSE /\ odBuf' = FrameSizeOf(Resolve("_frame_size"))
            /\ IF Resolve("set_frame_size") = "sampler"
               THEN smFrame' = odArg /\ odPc' = "start" /\ held' = held
               ELSE smFrame' = smFrame /\ OdRaise
    /\ UNCHANGED <<odInterface, odHasLock, smRecursive, odOwnFrame, odFirst,
                   odArg, odEntry, odTrace, motor, wm, lq>>

\* self.<method>() of the sampling interface, then the next position
SamplerCall(method, size, next) ==
    /\ IF Resolve(method) = "sampler"
       THEN OdRecord(method, size) /\ odPc' = next /\ held' = held
       ELSE odTrace' = odTrace /\ OdRaise
    /\ UNCHANGED <<odInterface, odHasLock, smRecursive, odOwnFrame, smFrame,
                   odFirst, odArg, odBuf, odEntry, motor, wm, lq>>

StartBufferedAcquisition ==
    /\ odPc = "start"
    /\ SamplerCall("start_buffered_acquisition", 0, "trigger")

\* self.microwave().trigger()
MicrowaveTrigger ==
    /\ odPc = "trigger" /\ odPc' = "get"
    /\ OdRecord("trigger", 0)
    /\ UNCHANGED <<odInterface, odHasLock, smRecursive, odOwnFrame, smFrame,
                   held, odFirst, odArg, odBuf, odEntry, motor, wm, lq>>

GetBufferedSamples ==
    /\ odPc = "get"
    /\ SamplerCall("get_buffered_samples",
                   FrameSizeOf(Resolve("_frame_size")), "stop")

StopBufferedAcquisition ==
    /\ odPc = "stop"
    /\ SamplerCall("stop_buffered_acquisition", 0, "restore")

\* self._frame_size = buffered_frame_size, and the return out of both with
\* blocks
RestoreFrameSize ==
    /\ odPc = "restore" /\ odPc' = "done"
    /\ odOwnFrame' = IF odBuf # 0 THEN odBuf ELSE odOwnFrame
    /\ held' = [l \in Locks |-> 0]
    /\ UNCHANGED <<odInterface, odHasLock, smRecursive, smFrame, odFirst,
                   odArg, odBuf, odEntry, odTrace, motor, wm, lq>>

\* the caller goes on to its next call
OdmrNextCall ==
    /\ odPc \in {"done", "raised"} /\ odPc' = "idle"
    /\ UNCHANGED <<odInterface, odHasLock, smRecursive, odOwnFrame, smFrame,
                   held, odFirst, odArg, odBuf, odEntry, odTrace,
                   motor, wm, lq>>

NextOdmr ==
    \/ OdmrOnActivate \/ CallAcquireFrame \/ LockSelf \/ LockScanner
    \/ SetFrameSize \/ StartBufferedAcquisition \/ MicrowaveTrigger
    \/ GetBufferedSamples \/ StopBufferedAcquisition \/ RestoreFrameSize
    \/ OdmrNextCall

SpecOdmr == InitNoStage /\ [][NextOdmr]_vars


\* ------------------------------------------------------------- claims
OutOfRange(v) == v < PosMin \/ v > PosMax
WrittenFor(axis, opcode) == {w \in written : w[1] = axis /\ w[2] = opcode}
Returned(name) == pc = "done" /\ op = name

\* C1: for every configured axis whose target lies outside
\* [pos_min, pos_max], move_abs never writes an MA command for that axis, in
\* any of its attempts.
C1_NoMoveOutsideBounds ==
    op = "move_abs" =>
        \A i \in DOMAIN batch :
            OutOfRange(batch[i].val) => WrittenFor(batch[i].axis, "MA") = {}

\* a move_abs that returned after it rejected one target and moved another axis
C1_Witness ==
    /\ Returned("move_abs")
    /\ \E i \in DOMAIN batch :
        OutOfRange(batch[i].val) /\ WrittenFor(batch[i].axis, "MA") = {}
    /\ \E w \in written : w[2] = "MA"

\* C2: move_rel and move_abs run their batch at most 3 times and stop at the
\* first attempt that completes without an exception; 'Motor cannot move!' is
\* logged exactly when all 3 attempts raised.
C2_ThreeAttemptsStopAtFirstSuccess ==
    /\ bodyRuns <= 3
    /\ (pc = "done" /\ op \in {"move_abs", "move_rel"}) =>
        /\ bodyRuns = (IF nConn < 3 THEN nConn + 1 ELSE 3)
        /\ ("cannot_move" \in logs) <=> (nConn = 3)

\* attempts 1 and 2 of a move_abs raised, attempt 3 completed
C2_Witness ==
    /\ Returned("move_abs")
    /\ nConn = 2 /\ bodyRuns = 3 /\ "cannot_move" \notin logs

\* C3: for every axis and every offset with |offset| < pos_step, move_rel
\* issues no MA command for that axis, in any of its attempts.
C3_NoMoveForSmallStep ==
    op = "move_rel" =>
        \A i \in DOMAIN batch :
            Abs(batch[i].val) < PosStep => WrittenFor(batch[i].axis, "MA") = {}

\* a move_rel that returned after it met an offset below pos_step
C3_Witness ==
    /\ Returned("move_rel")
    /\ "step_small" \in logs
    /\ \E i \in DOMAIN batch :
        Abs(batch[i].val) < PosStep /\ WrittenFor(batch[i].axis, "MA") = {}

\* C4 (as claimed): in a move_rel batch an axis whose offset is rejected as
\* too small is only logged and skipped: with no transport failure at all,
\* the rejection raises nothing (no attempt fails) and every axis of the
\* batch is processed in that attempt.
C4_SmallStepOnlySkipped ==
    (Returned("move_rel") /\ "step_small" \in logs /\ ~faulted) =>
        /\ nConn = 0
        /\ \A i \in DOMAIN batch : batch[i].axis \in visited

\* C5 (as claimed): with a transport that never fails, a move_abs or move_rel
\* call in which some target is out of range runs its batch body exactly once
\* and logs neither 'Motor connection problem' nor 'Motor cannot move!'.
C5_OutOfRangeConsumesNoAttempt ==
    (pc = "done" /\ op \in {"move_abs", "move_rel"}
        /\ "border" \in logs /\ ~faulted) =>
        /\ bodyRuns = 1
        /\ "conn_problem" \notin logs
        /\ "cannot_move" \notin logs

\* C6 (as claimed): a move_abs call in which every target is out of bounds
\* performs no write and no read on the transport.
C6_AllOutOfBoundsNoChannel ==
    (op = "move_abs" /\ \A i \in DOMAIN batch : OutOfRange(batch[i].val)) =>
        ~touched

\* C6 (amended): a move_abs call in which every target is out of bounds
\* writes no command; what it hands to the transport are only the TS status
\* queries of the wait that follows the batch.
C6_AllOutOfBoundsOnlyStatusQueries ==
    (op = "move_abs" /\ \A i \in DOMAIN batch : OutOfRange(batch[i].val)) =>
        /\ written = {}
        /\ \A q \in asked : q[2] = "TS"

\* a move_abs with every target rejected returned after it polled the status
C6_Witness ==
    /\ Returned("move_abs")
    /\ \A i \in DOMAIN batch : OutOfRange(batch[i].val)
    /\ touched /\ asked # {}

\* C7 (as claimed): _motor_stopped returns True iff every status value the
\* device reported in this call is even and False if any is odd, and the entry
\* of an axis is never taken from the reply of another axis, also when the
\* status query of some axis raises.
C7_StoppedFromOwnReplies ==
    Returned("_motor_stopped") =>
        LET odd == \E a \in AxisSet :
                       replies[a].kind = "ok" /\ replies[a].val % 2 = 1
            r == InMovementXyz(replies)
        IN  /\ stopped \in {"true", "false"}
            /\ (stopped = "true") <=> ~odd
            /\ \A a \in DOMAIN r.dict : r.dict[a].of = a

\* C8: get_pos for one axis issues exactly 5 TT queries when all of them
\* fail, raises nothing and returns a mapping without the axis; when query
\* k <= 5 is the first to succeed it issues exactly k queries.
C8_GetPosFiveAttempts ==
    (Returned("get_pos") /\ Len(gpList) = 1) =>
        /\ ret = "mapping"
        /\ ttAsked <= 5
        /\ gpList[1] \in DOMAIN gpRes => ttAsked = ttFailed + 1
        /\ gpList[1] \notin DOMAIN gpRes => (ttAsked = 5 /\ ttFailed = 5)

\* a get_pos for one axis returned after every exchange failed
C8_Witness ==
    /\ Returned("get_pos") /\ Len(gpList) = 1
    /\ ttFailed = 5 /\ gpList[1] \notin DOMAIN gpRes /\ ret = "mapping"

\* C9: calibrate called with a direction outside {0,1,2,3} raises ValueError
\* before anything is handed to the transport (no FE, no MA, no query).
C9_BadDirectionRejectedFirst ==
    (op = "calibrate" /\ dir \notin {0, 1, 2, 3}) =>
        /\ pc \in {"cal_check", "done"}
        /\ pc = "done" => ret = "ValueError"
        /\ ~touched /\ written = {} /\ asked = {}

\* a calibrate with direction 4 has raised
C9_Witness ==
    Returned("calibrate") /\ dir = 4 /\ ret = "ValueError" /\ ~listNone

\* C10 (as claimed): abort returns 0 only after the AB command has been
\* written for every configured axis and a subsequent _motor_stopped() check
\* returned True.
C10_AbortOkOnlyAfterAllStopped ==
    (Returned("abort") /\ ret = "0") =>
        /\ \A a \in AxisSet : <<a, "AB", 0>> \in written
        /\ stopped = "true"

\* C11 (as claimed): a transport exception raised while a command is being
\* sent surfaces as a failure of the public call: abort returns -1 when the
\* write of an AB command raised, set_velocity returns -1 when the write of an
\* SV command raised.
C11_WriteFailureSurfaces ==
    (pc = "done" /\ op \in {"abort", "set_velocity"}
        /\ "cmd_not_accepted" \in logs) =>
        ret = "-1"

\* the recorded status check: some axis answered with an odd status
ReportedMoving ==
    /\ replies # <<>>
    /\ \E i \in 1..InMovementXyz(replies).asked :
        replies[Axes[i]].kind = "ok" /\ replies[Axes[i]].val % 2 = 1

\* C12: finish_calibrate writes a DH command only if the _motor_stopped()
\* check at its entry returned True; when any axis reports moving it writes no
\* DH command, logs a warning and returns the result of get_pos().
C12_DefineHomeOnlyWhenStopped ==
    op = "finish_calibrate" =>
        /\ WrittenFor("x", "DH") \cup WrittenFor("y", "DH")
               \cup WrittenFor("z", "DH") # {} => stopped = "true"
        /\ ReportedMoving =>
            /\ \A w \in written : w[2] # "DH"
            /\ "still_moving" \in logs
            /\ pc \in {"gp", "done"}
            /\ gpRet = "finish_calibrate" /\ gpList = Axes
            /\ pc = "done" => ret = "mapping"

\* a finish_calibrate that was refused because 'y' alone reported motion has
\* returned the positions
C12_Witness ==
    /\ Returned("finish_calibrate") /\ ret = "mapping"
    /\ ReportedMoving
    /\ replies["x"].kind = "ok" /\ replies["x"].val % 2 = 0
    /\ DOMAIN gpRes = AxisSet

\* C13: when the poll-wait of move_abs times out because the stage keeps
\* reporting motion, move_abs logs a warning only: the call returns its
\* mapping, the timeout starts no further attempt of the batch (the bodies
\* started are those the raised attempts account for; with a transport that
\* never fails the batch ran once and every in-bounds axis has exactly one MA
\* command) and 'Motor cannot move!' is not logged.
C13_TimeoutWarnsOnly ==
    (op = "move_abs" /\ "timed_out" \in logs) =>
        /\ pc = "done" /\ ret = "param_dict"
        /\ "cannot_move" \notin logs
        /\ bodyRuns = nConn + 1
        /\ ~faulted =>
            /\ bodyRuns = 1
            /\ \A i \in DOMAIN batch :
                ~OutOfRange(batch[i].val) =>
                    Cardinality(WrittenFor(batch[i].axis, "MA")) = 1

\* a move_abs whose wait timed out on a transport that never failed, with an
\* in-bounds target
C13_Witness ==
    /\ Returned("move_abs") /\ "timed_out" \in logs /\ ~faulted
    /\ stopped = "false"
    /\ \E i \in DOMAIN batch : ~OutOfRange(batch[i].val)

\* C14: move_abs always eventually returns, whatever the stage reports
\* (a stage that reports motion forever included) and whichever transport
\* exchanges raise, provided every single exchange returns or raises and the
\* clock advances.
C14_MoveAbsReturns ==
    (op = "move_abs") ~> (pc = "done" /\ ret = "param_dict")

\* a move_abs returned on the timeout of its third attempt, after the status
\* check of two attempts had raised
C14_Witness ==
    /\ Returned("move_abs") /\ "timed_out" \in logs
    /\ nConn = 2 /\ bodyRuns = 3 /\ stopped = "false"

WireReads == {i \in DOMAIN wire : wire[i].call = "read"}
WireWrites == {i \in DOMAIN wire : wire[i].call = "write"}

\* C16 (as claimed): _write_xyz performs, for each command, exactly one write
\* followed by exactly one read on the transport, whose result is discarded.
C16_OneWriteOneRead ==
    (Returned("_write_xyz") /\ ret = "0") =>
        /\ WireWrites = {1}
        /\ WireReads = {2}

\* C16 (amended): _write_xyz performs exactly one write; if it raises, no read
\* follows and -1 is returned; otherwise reads follow, at least one, each
\* after a read that returned, until a read raises or the configured timeout
\* has elapsed, and 0 is returned whatever was read.
C16_OneWriteThenReadsUntilFailure ==
    Returned("_write_xyz") =>
        /\ WireWrites = {1}
        /\ wire[1].out = "raise" => (WireReads = {} /\ ret = "-1")
        /\ wire[1].out = "ok" =>
            /\ ret = "0"
            /\ WireReads = 2..Len(wire) /\ Len(wire) >= 2
            /\ \A i \in 2..(Len(wire) - 1) : wire[i].out = "ok"
            /\ wire[Len(wire)].out = "raise" \/ elapsed > WaitTimeout

\* a _write_xyz returned 0 after two reads that returned and one that raised
C16_Witness ==
    /\ Returned("_write_xyz") /\ ret = "0"
    /\ Len(wire) = 4
    /\ wire[2].out = "ok" /\ wire[3].out = "ok" /\ wire[4].out = "raise"

\* the fragments the reads returned, in read order
RECURSIVE ReadConcat(_)
ReadConcat(i) ==
    IF i > Len(wire) THEN <<>>
    ELSE (IF wire[i].call = "read" THEN wire[i].frag ELSE <<>>)
             \o ReadConcat(i + 1)

\* C17: _ask_xyz performs exactly one write of the ID-prefixed command
\* followed by exactly nchunks reads and returns the concatenation of the
\* fragments in read order with the line terminators removed; TT, TS and TY
\* are asked with nchunks = 3.  (When the write or a read raises, the
\* exception leaves _ask_xyz at that exchange.)
C17_OneWriteNchunksReads ==
    Returned("_ask_xyz") =>
        /\ WireWrites = {1} /\ WireReads = 2..Len(wire)
        /\ wire[1].cmd[1] \in {"1", "2", "3"}
        /\ wire[1].cmd[2] \in {"TT", "TS", "TY"}
        /\ ret = "str_ret" =>
            /\ Len(wire) = 1 + 3
            /\ \A i \in DOMAIN wire : wire[i].out = "ok"
            /\ answer = SelectSeq(ReadConcat(1), LAMBDA c : c = "7")
        /\ ret # "str_ret" =>
            /\ ret = "raised" /\ Len(wire) <= 1 + 3
            /\ wire[Len(wire)].out = "raise"
            /\ \A i \in 1..(Len(wire) - 1) : wire[i].out = "ok"

\* an _ask_xyz returned a string put together from three fragments that
\* carried line terminators
C17_Witness ==
    /\ Returned("_ask_xyz") /\ ret = "str_ret"
    /\ wire[2].frag = <<"7", "CR">> /\ wire[3].frag = <<"LF", "7">>
    /\ wire[4].frag = <<"LF">>
    /\ answer = <<"7", "7">>

\* C18: get_status and get_velocity issue exactly one query per requested
\* axis with no retry: if the exchange for an axis raises, no further query
\* is made (for that axis or any other), the values collected so far are
\* dropped and -1 is returned; otherwise every requested axis was asked once
\* and has its entry in the mapping returned.
C18_OneShotQueries ==
    op \in {"get_status", "get_velocity"} =>
        /\ nAsk <= Len(gpList)
        /\ asked = {<<gpList[i], IF op = "get_status" THEN "TS" ELSE "TY">> :
                       i \in 1..nAsk}
        /\ pc = "done" =>
            /\ (ret = "-1") <=> faulted
            /\ ret = "-1" => gpRes = <<>>
            /\ ret # "-1" =>
                /\ ret = "mapping" /\ nAsk = Len(gpList)
                /\ DOMAIN gpRes = {gpList[i] : i \in 1..Len(gpList)}

\* a get_velocity for two axes returned -1: the first axis had answered, the
\* query of the second raised
C18_Witness ==
    /\ Returned("get_velocity") /\ ret = "-1"
    /\ Len(gpList) = 2 /\ nAsk = 2 /\ gpRes = <<>>

RoundRaw(v) ==
    LET lo == IF v >= 0 THEN v \div SubPerRaw
              ELSE 0 - (((0 - v) + SubPerRaw - 1) \div SubPerRaw)
        rest == v - lo * SubPerRaw
    IN  IF 2 * rest < SubPerRaw THEN lo
        ELSE IF 2 * rest > SubPerRaw THEN lo + 1
        ELSE IF lo % 2 = 0 THEN lo ELSE lo + 1

\* C20 (as claimed): for every in-bounds target, the integer argument of the
\* MA command sent by move_abs equals round(target * 1e7), the raw position
\* nearest to the target.
C20_MoveArgumentRounded ==
    op = "move_abs" =>
        \A i \in DOMAIN batch :
            \A w \in WrittenFor(batch[i].axis, "MA") :
                w[3] = RoundRaw(batch[i].val)

\* the value of the mapping the round trip started with, for an axis
Given(axis) == (CHOOSE i \in DOMAIN batch : batch[i].axis = axis)

\* C21 (as claimed): get_pos returns for each axis whose query succeeds the
\* integer of the TT reply times 1e-7; hence after move_abs to an in-bounds
\* target that is a multiple of 1e-7 m, the device replying with the raw value
\* it was sent, get_pos returns that target for the axis.
C21_PositionRoundTrip ==
    (Returned("get_pos") /\ ret = "mapping") =>
        \A a \in DOMAIN gpRes :
            /\ gpRes[a] = devPos[a] * SubPerRaw
            /\ (/\ ~OutOfRange(batch[Given(a)].val)
                /\ batch[Given(a)].val % SubPerRaw = 0
                /\ WrittenFor(a, "MA") # {}) =>
                   gpRes[a] = batch[Given(a)].val

\* C22 (as claimed): set_velocity(v) followed by get_velocity on the same
\* axis, the device storing the raw SV value and reporting it on TY, returns
\* a velocity that differs from v by less than one raw unit, and v itself
\* when v is a multiple of 1e-7.
C22_VelocityRoundTrip ==
    (Returned("get_velocity") /\ ret = "mapping") =>
        \A a \in DOMAIN gpRes :
            WrittenFor(a, "SV") # {} =>
                /\ Abs(gpRes[a] - batch[Given(a)].val) < SubPerRaw
                /\ batch[Given(a)].val % SubPerRaw = 0 =>
                       gpRes[a] = batch[Given(a)].val

\* the axes of the mapping of the current call
Listed == {batch[i].axis : i \in DOMAIN batch}

\* C23: calibrate with a valid direction d and a list of axes writes FE<d>
\* for every listed axis before it writes any MA command, and then commands
\* an absolute move to position 0 for exactly the listed axes.  (A command
\* whose write raised is missing on the wire; the order and the completeness
\* are stated for the commands that got through.)
C23_HomingBeforeMoveToZero ==
    (op = "calibrate" /\ dir \in {0, 1, 2, 3} /\ ~listNone) =>
        /\ \A w \in written :
            /\ w[1] \in Listed
            /\ w[2] \in {"FE", "MA"}
            /\ w[2] = "FE" => w[3] = dir
            /\ w[2] = "MA" => w[3] = 0
        /\ pc \in {"cal_check", "cal_fe"} => \A w \in written : w[2] # "MA"
        /\ "cmd_not_accepted" \notin logs =>
            /\ (\E w \in written : w[2] = "MA") =>
                   \A a \in Listed : <<a, "FE", dir>> \in written
            /\ pc \in {"gp", "done"} =>
                   \A a \in Listed : <<a, "MA", 0>> \in written

\* a calibrate of 'z' and 'y' in direction 3 returned with every command
\* written
C23_Witness ==
    /\ Returned("calibrate") /\ dir = 3 /\ ret = "mapping"
    /\ written = {<<"z", "FE", 3>>, <<"y", "FE", 3>>,
                  <<"z", "MA", 0>>, <<"y", "MA", 0>>}

\* C24 (as claimed): calibrate called without an axis list (param_list =
\* None) calibrates all connected axes: it sends the FE command to every
\* configured axis and returns their positions, without raising.
C24_CalibrateAllByDefault ==
    (Returned("calibrate") /\ listNone /\ dir \in {0, 1, 2, 3}) =>
        /\ ret = "mapping"
        /\ "cmd_not_accepted" \notin logs =>
               \A a \in AxisSet : <<a, "FE", dir>> \in written

\* C25 (as claimed): within one move_rel call every MA command sent for an
\* axis carries the target (position of that axis at call entry + requested
\* offset); an axis already commanded in a failed attempt is not displaced by
\* its offset again when the batch is retried.
C25_RetryDoesNotDisplaceAgain ==
    op = "move_rel" =>
        \A i \in DOMAIN batch :
            \A w \in WrittenFor(batch[i].axis, "MA") :
                w[3] = ToRaw(entryPos[batch[i].axis] * SubPerRaw + batch[i].val)

\* C26 (as claimed): after on_activate returned, an SV command carrying the
\* default velocity has been written for every configured axis, for every
\* configuration of the three axis labels.  (Stated for a transport on which
\* no exchange raises.)
C26_DefaultVelocityForEveryAxis ==
    (Returned("on_activate") /\ ~faulted) =>
        \A i \in DOMAIN labels :
            <<labels[i], "SV", ToRaw(VelDefault)>> \in written

\* the calling thread's step that runs the call `name` of the wavemeter
WmCalls(name) == wmPc = "idle" /\ wmPc' = "returned" /\ wmCall' = name

\* C27: in the dummy wavemeter, start_acquisition called while is_running
\* is True returns -1 and changes neither is_running nor the stored
\* wavelength; called while not running it sets is_running to True, sets a
\* positive wavelength and returns 0; stop_acquisition returns 0 and leaves
\* is_running False from either state; so after every call is_running is
\* True exactly when the last start/stop call that returned 0 was a start.
C27_StartStopKeepRunningFlag ==
    [][/\ (WmCalls("start") /\ isRunning) =>
            /\ wmRet' = 0 - 1
            /\ isRunning' = isRunning /\ wavelength' = wavelength
       /\ (WmCalls("start") /\ ~isRunning) =>
            /\ wmRet' = 0
            /\ isRunning' = TRUE /\ wavelength' > 0
       /\ WmCalls("stop") => (wmRet' = 0 /\ isRunning' = FALSE)
       /\ isRunning' = (lastOk' = "start")]_vars

\* a start that found the wavemeter running, after a stop and a restart
C27_Witness ==
    /\ wmPc = "returned" /\ wmCall = "start" /\ wmRet = 0 - 1
    /\ isRunning /\ lastOk = "start" /\ timer = "stopped"

\* C28: in the dummy wavemeter, once stop_acquisition has returned the
\* stored wavelength no longer changes until the next start_acquisition,
\* whatever the measurement thread (its timeouts and the signals it
\* handles) and set_timing calls do in between.
C28_NoChangeAfterStop ==
    [][(lastOk = "stop" /\ lastOk' = "stop") => wavelength' = wavelength]_vars

\* the ON and OFF commands among what a call handed to the instrument
LaserCommands == SelectSeq(lqSent, LAMBDA q : q \in {"ON", "OFF"})

\* C29: set_laser_state(s) sends an ON or OFF command only when the state
\* just queried from the device differs from s: a call that found the device
\* reporting s has sent the status query and nothing else, and a call for
\* s = ON (resp. OFF) that found another state has sent the status query and
\* then exactly one ON (resp. OFF); no call sends anything else.
C29_CommandOnlyWhenStateDiffers ==
    (lqPc \in {"done", "raised"} /\ lqState # "none") =>
        /\ lqState = lqStatus => lqSent = <<StatusQuery(psu)>>
        /\ (lqState # lqStatus /\ lqStatus \in {"ON", "OFF"}) =>
                lqSent = <<StatusQuery(psu), lqStatus>>
        /\ LaserCommands \in {<<>>, <<lqStatus>>}

\* a call for OFF that found the laser on, and sent OFF
C29_Witness ==
    /\ lqPc = "done" /\ lqStatus = "OFF" /\ lqState = "ON"
    /\ lqSent = <<"STATUS?", "OFF">>

\* the device calls of an acquire_frame, in order
OdSteps == [i \in DOMAIN odTrace |-> odTrace[i].step]

\* C30: an acquire_frame that returns has performed, while holding the lock
\* it takes as its own and the sampling device's lock, the steps
\* start_buffered_acquisition, microwave trigger, get_buffered_samples,
\* stop_buffered_acquisition in this order; when a frame_size was passed,
\* the sampling device's frame size after the call equals the one before
\* the call; and no lock is held after the return.
C30_AcquireFrameOrderAndRestore ==
    odPc = "done" =>
        /\ OdSteps = <<"start_buffered_acquisition", "trigger",
                       "get_buffered_samples", "stop_buffered_acquisition">>
        /\ \A i \in DOMAIN odTrace :
                {odFirst, "sampler"} \subseteq odTrace[i].locks
        /\ odArg # 0 => smFrame = odEntry
        /\ \A l \in Locks : held[l] = 0

=============================================================================
